---- MODULE Spec2Model ----
(***************************************************************************)
(* HildonTouchSelector (src/hildon/hildon-gtk.h, the touch selector part). *)
(*                                                                         *)
(* The selector is a GtkVBox holding one inner GtkHBox (priv->hbox); every *)
(* column is a SelectorColumn record { parent, model, tree_view, panarea } *)
(* kept in the GSList priv->columns, its pannable area packed in the hbox. *)
(* The tree view of a column carries the toolkit's selection object: a     *)
(* mode, the set of selected rows and the anchor row.  The toolkit calls   *)
(* the selector makes (GtkTreeSelection, GtkTreeView, GtkContainer, GLib)  *)
(* are modelled by the operators named after them, with the behaviour of   *)
(* GTK+ 2 with its precondition checks (g_return_if_fail) compiled in.     *)
(*                                                                         *)
(* The selector's map handler arms a GLib timeout whose callback centres   *)
(* the columns on their active rows; the timeouts armed and not yet run,   *)
(* the direct children of the selector and its destruction are state too.  *)
(* A read or write through a NULL or dangling pointer ends the process:    *)
(* the variable fault names it and no call is made after it.               *)
(***************************************************************************)
EXTENDS Integers, Sequences, FiniteSets, TLC

VARIABLES columns,     \* priv->columns: sequence of SelectorColumn records
          hbox,        \* children of priv->hbox, in packing order
          print_func,  \* priv->print_func (NULL or a function)
          store,       \* contents of the tree models: model -> rows
          emitted,     \* payloads of the "changed" emissions of the last call
          last,        \* the last call: name, arguments, result, effects
          vbox,        \* children of the selector itself, in packing order
          mapped,      \* GTK_WIDGET_MAPPED (selector)
          timeouts,    \* timeouts armed by the map handler and not yet run
          destroyed,   \* the selector was destroyed and its memory released
          fault        \* "none", or the memory fault that ended the process

vars == <<columns, hbox, print_func, store, emitted, last,
          vbox, mapped, timeouts, destroyed, fault>>

\* The widget's life: what the calls on a live selector leave alone
life == <<vbox, mapped, timeouts, destroyed>>

----------------------------------------------------------------------------
(* Bounds and the values the calls are tried with *)

MaxCols == 2

\* Timeouts armed and not yet run
MaxTimeouts == 2

\* Widgets of the embedder's packed into the selector
MaxExtra == 1

\* Rows of the list store of a text selector
MaxRows == 3

NULL == 0

\* The tree models an embedder can hand to the selector.  A row is a record
\* of its identity and the string in model field 0.
InitStore ==
  << << [id |-> 1, text |-> "A"], [id |-> 2, text |-> "B"] >>,
     << [id |-> 3, text |-> "X"] >>,
     << >> >>

ModelIds == DOMAIN InitStore

\* Print functions an embedder can install; NULL stands for none.
PrintFuncs == {1}

SelectionModes == {"SINGLE", "MULTIPLE"}

----------------------------------------------------------------------------
(* GLib strings: a gchar* is <<>> (NULL) or <<s>> *)

NullStr == << >>

Str(s) == << s >>

\* g_strconcat (string1, ..., NULL): the list of arguments ends at the first
\* NULL, so a NULL string1 gives NULL.
g_strconcat(string1, rest) ==
  IF string1 = NullStr THEN NullStr ELSE Str(string1[1] \o rest)

----------------------------------------------------------------------------
(* GtkTreeModel *)

GTK_IS_TREE_MODEL(st, model) == model \in DOMAIN st

Rows(st, model) == IF model \in DOMAIN st THEN st[model] ELSE << >>

RowIds(st, model) == { Rows(st, model)[k].id : k \in 1..Len(Rows(st, model)) }

\* gtk_tree_model_get_path: the position of the row, 0 when it has none
gtk_tree_model_get_path(st, model, iter) ==
  IF iter \in RowIds(st, model)
  THEN CHOOSE k \in 1..Len(Rows(st, model)) : Rows(st, model)[k].id = iter
  ELSE 0

\* gtk_tree_model_get_iter_first: the first row, NULL when there is none
gtk_tree_model_get_iter_first(st, model) ==
  IF Rows(st, model) = << >> THEN NULL ELSE Rows(st, model)[1].id

\* gtk_tree_model_get (model, iter, 0, &string, -1)
gtk_tree_model_get(st, model, iter) ==
  Rows(st, model)[gtk_tree_model_get_path(st, model, iter)].text

----------------------------------------------------------------------------
(* GtkListStore *)

\* The tree models that are list stores; the model with row X is a tree store
ListStores(st) == DOMAIN st \ {2}

GTK_IS_LIST_STORE(st, model) == model \in ListStores(st)

\* gtk_list_store_new (1, G_TYPE_STRING): a new list store with no row
gtk_list_store_new(st) == [store |-> Append(st, << >>), model |-> Len(st) + 1]

\* A GtkTreeIter of a row that is in no model yet
NewIter(st) ==
  CHOOSE id \in 1..(Cardinality(UNION { RowIds(st, m) : m \in DOMAIN st }) + 1) :
    /\ \A m \in DOMAIN st : id \notin RowIds(st, m)
    /\ \A j \in 1..(id - 1) : \E m \in DOMAIN st : j \in RowIds(st, m)

\* Variant of gtk_list_store_insert: a GtkTreeIter stands for a position, so
\* the new row has the iter of the row that was at its place, every later
\* row the iter of the row after it
gtk_list_store_insert_iter_is_position(st, model, position, text) ==
  LET rows == Rows(st, model)
      at   == IF position \in 0..Len(rows) THEN position ELSE Len(rows)
      ids  == [k \in 1..(Len(rows) + 1) |->
                 IF k <= Len(rows) THEN rows[k].id ELSE NewIter(st)]
      new  == [k \in 1..(Len(rows) + 1) |->
                 [id |-> ids[k],
                  text |-> IF k <= at THEN rows[k].text
                           ELSE IF k = at + 1 THEN text
                           ELSE rows[k - 1].text]]
  IN  [st EXCEPT ![model] = new]

\* gtk_list_store_insert followed by gtk_list_store_set (.., 0, text, -1): a
\* new row with the text at the position, counted from 0; at the end for a
\* position that is negative or larger than the number of rows.  The rows
\* there were keep their iters.
gtk_list_store_insert(st, model, position, text) ==
  LET rows == Rows(st, model)
      at   == IF position \in 0..Len(rows) THEN position ELSE Len(rows)
      row  == [id |-> NewIter(st), text |-> text]
  IN  [st EXCEPT ![model] = SubSeq(rows, 1, at) \o << row >>
                            \o SubSeq(rows, at + 1, Len(rows))]

\* gtk_list_store_append followed by gtk_list_store_set
gtk_list_store_append(st, model, text) ==
  gtk_list_store_insert(st, model, Len(Rows(st, model)), text)

\* gtk_list_store_prepend followed by gtk_list_store_set
gtk_list_store_prepend(st, model, text) ==
  gtk_list_store_insert(st, model, 0, text)

----------------------------------------------------------------------------
(* GtkTreeView and its GtkTreeSelection.  A tree view is                   *)
(* [model, mode, selected, anchor, tree_column]; an operation gives the    *)
(* new tree view and the number of "changed" signals the selection emitted.*)

Result(tv, n) == [tv |-> tv, changed |-> n]

\* gtk_cell_renderer_text_new: a text renderer, its text at the left
gtk_cell_renderer_text_new == [xalign |-> "0.0"]

\* gtk_tree_view_column_new with the renderer packed and the attribute
\* bindings added: the one GtkTreeViewColumn of a column's tree view
gtk_tree_view_column_new(renderer, args) == [renderer |-> renderer, attributes |-> args]

\* gtk_tree_selection_unselect_all
gtk_tree_selection_unselect_all(tv) ==
  IF tv.selected = {} THEN Result(tv, 0)
  ELSE Result([tv EXCEPT !.selected = {},
                         !.anchor = IF tv.mode = "GTK_SELECTION_MULTIPLE"
                                    THEN tv.anchor ELSE NULL], 1)

\* gtk_tree_selection_set_mode: nothing when the mode is the same; going to
\* SINGLE or BROWSE unselects every row and selects the anchor again when it
\* was selected; going to MULTIPLE keeps the selection.
gtk_tree_selection_set_mode(tv, type) ==
  IF tv.mode = type THEN Result(tv, 0)
  ELSE IF type = "GTK_SELECTION_MULTIPLE" THEN Result([tv EXCEPT !.mode = type], 0)
  ELSE LET keep == tv.anchor # NULL /\ tv.anchor \in tv.selected
           un   == gtk_tree_selection_unselect_all(tv)
       IN  IF keep
           THEN Result([tv EXCEPT !.mode = type, !.selected = {tv.anchor}],
                       un.changed + 1)
           ELSE Result([tv EXCEPT !.mode = type, !.selected = {}, !.anchor = NULL],
                       un.changed)

\* gtk_tree_selection_select_iter: nothing for a row that is not in the view's
\* model or is selected already; in MULTIPLE mode the row is added, otherwise
\* it replaces the selected row.
gtk_tree_selection_select_iter(st, tv, iter) ==
  IF iter \notin RowIds(st, tv.model) \/ iter \in tv.selected THEN Result(tv, 0)
  ELSE IF tv.mode = "GTK_SELECTION_MULTIPLE"
       THEN Result([tv EXCEPT !.selected = tv.selected \cup {iter}, !.anchor = iter], 1)
       ELSE Result([tv EXCEPT !.selected = {iter}, !.anchor = iter], 1)

\* gtk_tree_view_set_cursor (tv, path, NULL, FALSE): moves the cursor to the
\* row and selects it alone.  SINGLE mode leaves a row that is selected
\* already as it is; BROWSE mode unselects and selects it again, which emits
\* "changed"; MULTIPLE mode unselects every other row.
gtk_tree_view_set_cursor(st, tv, iter) ==
  IF iter \notin RowIds(st, tv.model) THEN Result(tv, 0)
  ELSE IF tv.mode = "GTK_SELECTION_SINGLE" /\ tv.selected = {iter} THEN Result(tv, 0)
  ELSE Result([tv EXCEPT !.selected = {iter}, !.anchor = iter], 1)

\* A tap on a row of the view: in MULTIPLE mode it toggles the row, otherwise
\* it moves the cursor to it.
TapRow(st, tv, iter) ==
  IF tv.mode = "GTK_SELECTION_MULTIPLE"
  THEN Result([tv EXCEPT !.selected = IF iter \in tv.selected
                                      THEN tv.selected \ {iter}
                                      ELSE tv.selected \cup {iter},
                         !.anchor = iter], 1)
  ELSE gtk_tree_view_set_cursor(st, tv, iter)

\* gtk_tree_selection_get_selected: fails in MULTIPLE mode
gtk_tree_selection_get_selected(tv) ==
  IF tv.mode = "GTK_SELECTION_MULTIPLE" \/ tv.selected = {}
  THEN [ok |-> FALSE, iter |-> NULL]
  ELSE [ok |-> TRUE, iter |-> CHOOSE r \in tv.selected : TRUE]

\* gtk_tree_selection_get_selected_rows: the paths of the selected rows in
\* the order of the view
RECURSIVE SelectedFrom(_, _, _)
SelectedFrom(st, tv, k) ==
  IF k > Len(Rows(st, tv.model)) THEN << >>
  ELSE (IF Rows(st, tv.model)[k].id \in tv.selected THEN << k >> ELSE << >>)
       \o SelectedFrom(st, tv, k + 1)

RECURSIVE g_list_reverse(_)
g_list_reverse(list) ==
  IF list = << >> THEN << >> ELSE Append(g_list_reverse(Tail(list)), Head(list))

\* Variant of gtk_tree_selection_get_selected_rows: the list is built by
\* prepending and not reversed at the end
get_selected_rows_not_reversed(st, tv) == g_list_reverse(SelectedFrom(st, tv, 1))

gtk_tree_selection_get_selected_rows(st, tv) == SelectedFrom(st, tv, 1)

\* Variant of gtk_tree_view_set_model: the selection is kept
gtk_tree_view_set_model_keeps_selection(tv, model) ==
  IF tv.model = model THEN Result(tv, 0)
  ELSE Result([tv EXCEPT !.model = model], 0)

\* gtk_tree_view_set_model: nothing for the model the view has; otherwise
\* the selection and the anchor are dropped and "changed" is emitted.
gtk_tree_view_set_model(tv, model) ==
  IF tv.model = model THEN Result(tv, 0)
  ELSE Result([tv EXCEPT !.model = model, !.selected = {}, !.anchor = NULL], 1)

----------------------------------------------------------------------------
(* GSList *)

g_slist_length(list) == Len(list)

\* g_slist_index: position of the element, -1 when it is not in the list
g_slist_index(list, column_id) ==
  IF \E k \in 1..Len(list) : list[k].id = column_id
  THEN (CHOOSE k \in 1..Len(list) : list[k].id = column_id) - 1
  ELSE -1

\* (SelectorColumn *) NULL
NoColumn == [id |-> NULL]

\* g_slist_nth_data (list, guint n): NULL past the end of the list, which is
\* where a negative gint n, converted to guint, always is
g_slist_nth_data(list, n) ==
  IF n \in 0..(Len(list) - 1) THEN list[n + 1] ELSE NoColumn

RECURSIVE g_slist_remove(_, _)
g_slist_remove(list, column_id) ==
  IF list = << >> THEN << >>
  ELSE IF Head(list).id = column_id THEN Tail(list)
  ELSE << Head(list) >> \o g_slist_remove(Tail(list), column_id)

----------------------------------------------------------------------------
(* The selector: queries *)

\* What a call gives back: a value, or no value because it read or wrote
\* through the NULL that g_slist_nth_data gave it
Return(value) == [ret |-> value, fault |-> FALSE]

SIGSEGV == [ret |-> NULL, fault |-> TRUE]

Faulted(r) == "fault" \in DOMAIN r /\ r.fault

\* hildon_touch_selector_get_num_columns
hildon_touch_selector_get_num_columns(cols) == g_slist_length(cols)

\* Variant of hildon_touch_selector_get_column_selection_mode: result starts
\* as MULTIPLE
get_column_selection_mode_starts_multiple(cols) ==
  IF ~(hildon_touch_selector_get_num_columns(cols) > 0) THEN "MULTIPLE"
  ELSE IF cols[1].tree_view.mode = "GTK_SELECTION_MULTIPLE" THEN "MULTIPLE"
  ELSE "SINGLE"

\* hildon_touch_selector_get_column_selection_mode: the mode of the tree view
\* of the first column; SINGLE when there is no column
hildon_touch_selector_get_column_selection_mode(cols) ==
  IF ~(hildon_touch_selector_get_num_columns(cols) > 0) THEN "SINGLE"
  ELSE IF cols[1].tree_view.mode = "GTK_SELECTION_MULTIPLE" THEN "MULTIPLE"
  ELSE "SINGLE"

\* Variant of _hildon_touch_selector_has_multiple_selection: "and" for "or"
has_multiple_selection_and(cols) ==
  LET n_columns == hildon_touch_selector_get_num_columns(cols)
      mode      == hildon_touch_selector_get_column_selection_mode(cols)
  IN  (n_columns > 1) /\ (mode = "MULTIPLE")

\* _hildon_touch_selector_has_multiple_selection
_hildon_touch_selector_has_multiple_selection(cols) ==
  LET n_columns == hildon_touch_selector_get_num_columns(cols)
      mode      == hildon_touch_selector_get_column_selection_mode(cols)
  IN  (n_columns > 1) \/ (mode = "MULTIPLE")

\* hildon_touch_selector_has_multiple_selection: the class method
hildon_touch_selector_has_multiple_selection(cols) ==
  _hildon_touch_selector_has_multiple_selection(cols)

\* hildon_touch_selector_get_print_func
hildon_touch_selector_get_print_func(pf) == pf

\* Variant of hildon_touch_selector_get_active_iter: the selector's mode is
\* not looked at
get_active_iter_any_mode(cols, column) ==
  IF ~(column < hildon_touch_selector_get_num_columns(cols))
  THEN [ok |-> FALSE, iter |-> NULL]
  ELSE LET current_column == g_slist_nth_data(cols, column)
       IN  IF current_column = NoColumn
           THEN [ok |-> FALSE, iter |-> NULL, fault |-> TRUE]
           ELSE gtk_tree_selection_get_selected(current_column.tree_view)

\* hildon_touch_selector_get_active_iter: fails unless the selector's mode is
\* SINGLE and the column number is below the number of columns; then
\* current_column->tree_view is read
hildon_touch_selector_get_active_iter(cols, column) ==
  IF hildon_touch_selector_get_column_selection_mode(cols) # "SINGLE"
  THEN [ok |-> FALSE, iter |-> NULL]
  ELSE IF ~(column < hildon_touch_selector_get_num_columns(cols))
  THEN [ok |-> FALSE, iter |-> NULL]
  ELSE LET current_column == g_slist_nth_data(cols, column)
       IN  IF current_column = NoColumn
           THEN [ok |-> FALSE, iter |-> NULL, fault |-> TRUE]
           ELSE gtk_tree_selection_get_selected(current_column.tree_view)

\* hildon_touch_selector_get_selected_rows: NULL (the empty list) for a
\* column number not below the number of columns
hildon_touch_selector_get_selected_rows(st, cols, column) ==
  IF ~(column < hildon_touch_selector_get_num_columns(cols)) THEN Return(<< >>)
  ELSE LET current_column == g_slist_nth_data(cols, column)
       IN  IF current_column = NoColumn THEN SIGSEGV
           ELSE Return(gtk_tree_selection_get_selected_rows(st, current_column.tree_view))

\* hildon_touch_selector_get_model
hildon_touch_selector_get_model(cols, column) ==
  IF ~(column < hildon_touch_selector_get_num_columns(cols)) THEN Return(NULL)
  ELSE LET current_column == g_slist_nth_data(cols, column)
       IN  IF current_column = NoColumn THEN SIGSEGV
           ELSE Return(current_column.model)

\* _default_print_func, first part: the selected rows of the first column,
\* comma separated; item is the position in the list selected_rows
RECURSIVE PrintSelectedRows(_, _, _, _, _)
PrintSelectedRows(st, model, selected_rows, item, result) ==
  IF item > Len(selected_rows) THEN result
  ELSE LET current_string == Rows(st, model)[selected_rows[item]].text
           i == item - 1
       IN  PrintSelectedRows(st, model, selected_rows, item + 1,
             IF i < Len(selected_rows) - 1
             THEN g_strconcat(result, current_string \o ",")
             ELSE g_strconcat(result, current_string))

\* _default_print_func, second part: the loop over the columns from i
RECURSIVE PrintActiveItems(_, _, _, _)
PrintActiveItems(st, cols, i, result) ==
  IF ~(i < hildon_touch_selector_get_num_columns(cols)) THEN result
  ELSE LET model  == hildon_touch_selector_get_model(cols, i).ret
           active == hildon_touch_selector_get_active_iter(cols, i)
       IN  PrintActiveItems(st, cols, i + 1,
             IF active.ok
             THEN (IF i # 0
                   THEN g_strconcat(result, ":" \o gtk_tree_model_get(st, model, active.iter))
                   ELSE Str(gtk_tree_model_get(st, model, active.iter)))
             ELSE result)

\* Variant of _default_print_func: in multiple mode result is not set to "("
\* before the loop over the selected rows
default_print_func_no_open(st, cols) ==
  LET num_columns == hildon_touch_selector_get_num_columns(cols)
      mode        == hildon_touch_selector_get_column_selection_mode(cols)
  IN  IF mode = "MULTIPLE" /\ num_columns > 0
      THEN LET selected_rows == hildon_touch_selector_get_selected_rows(st, cols, 0).ret
               model         == hildon_touch_selector_get_model(cols, 0).ret
               list          == PrintSelectedRows(st, model, selected_rows, 1, NullStr)
           IN  PrintActiveItems(st, cols, 1, g_strconcat(list, ")"))
      ELSE PrintActiveItems(st, cols, 0, NullStr)

\* _default_print_func
_default_print_func(st, cols) ==
  LET num_columns == hildon_touch_selector_get_num_columns(cols)
      mode        == hildon_touch_selector_get_column_selection_mode(cols)
  IN  IF mode = "MULTIPLE" /\ num_columns > 0
      THEN LET selected_rows == hildon_touch_selector_get_selected_rows(st, cols, 0).ret
               model         == hildon_touch_selector_get_model(cols, 0).ret
               list          == PrintSelectedRows(st, model, selected_rows, 1, Str("("))
           IN  PrintActiveItems(st, cols, 1, g_strconcat(list, ")"))
      ELSE PrintActiveItems(st, cols, 0, NullStr)

\* The string a print function installed by the embedder returns: the
\* embedder's own business, told apart from every string of the default one.
CallPrintFunc(func, st, cols) == Str("print_func")

\* Variant of hildon_touch_selector_get_current_text: the print function is
\* never called
get_current_text_default_only(pf, st, cols) == _default_print_func(st, cols)

\* hildon_touch_selector_get_current_text
hildon_touch_selector_get_current_text(pf, st, cols) ==
  IF pf # NULL THEN CallPrintFunc(pf, st, cols)
  ELSE _default_print_func(st, cols)

----------------------------------------------------------------------------
(* Widgets and GtkContainer *)

HBoxWidget == << "hbox", NULL >>

PanArea(id) == << "panarea", id >>

\* A widget of the embedder's, packed into the selector next to priv->hbox
ExtraWidget(k) == << "widget", k >>

InBox(box, widget) == \E k \in 1..Len(box) : box[k] = widget

Without(box, widget) == SelectSeq(box, LAMBDA w : w # widget)

\* widget->parent: a pannable area is packed in priv->hbox, the hbox and the
\* embedder's widgets in the selector
widget_parent(vb, box, widget) ==
  IF InBox(box, widget) THEN "hbox"
  ELSE IF InBox(vb, widget) THEN "selector"
  ELSE "none"

\* Variant of hildon_touch_selector_remove: for a widget that is no column's
\* pannable area the first column leaves the list
remove_first_when_not_found(cols, vb, box, widget) ==
  LET list == IF \E k \in 1..Len(cols) : cols[k].panarea = widget
              THEN LET position == CHOOSE k \in 1..Len(cols) :
                                     /\ cols[k].panarea = widget
                                     /\ \A j \in 1..(k - 1) : cols[j].panarea # widget
                       current_column == g_slist_nth_data(cols, position - 1)
                   IN  g_slist_remove(cols, current_column.id)
              ELSE IF cols = << >> THEN cols ELSE Tail(cols)
  IN  [cols |-> list, vbox |-> Without(vb, widget),
       box |-> IF widget = HBoxWidget THEN << >> ELSE box]

\* hildon_touch_selector_remove, the selector's GtkContainer::remove: the
\* column whose pannable area is the widget leaves the list and is freed;
\* then GtkBox's remove unparents the widget, which destroys a widget that
\* nobody else holds: priv->hbox goes with the pannable areas and the tree
\* views packed in it.
hildon_touch_selector_remove(cols, vb, box, widget) ==
  LET list == IF \E k \in 1..Len(cols) : cols[k].panarea = widget
              THEN LET position == CHOOSE k \in 1..Len(cols) :
                                     /\ cols[k].panarea = widget
                                     /\ \A j \in 1..(k - 1) : cols[j].panarea # widget
                       current_column == g_slist_nth_data(cols, position - 1)
                   IN  g_slist_remove(cols, current_column.id)
              ELSE cols
  IN  [cols |-> list, vbox |-> Without(vb, widget),
       box |-> IF widget = HBoxWidget THEN << >> ELSE box]

\* Variant of gtk_container_remove: the parent of the widget is not looked at
gtk_container_remove_any_parent(cols, vb, box, container, widget) ==
  hildon_touch_selector_remove(cols, vb, box, widget)

\* gtk_container_remove (container, widget): emits GtkContainer::remove on
\* the container only for a widget whose parent is that container.
gtk_container_remove(cols, vb, box, container, widget) ==
  IF widget_parent(vb, box, widget) # container
  THEN [cols |-> cols, vbox |-> vb, box |-> box]
  ELSE hildon_touch_selector_remove(cols, vb, box, widget)

----------------------------------------------------------------------------
(* The selector: the "changed" signal *)

\* Variant of _selection_changed_cb: the payload counts the columns from 1
selection_changed_cb_from_one(cols, column_id) == g_slist_index(cols, column_id) + 1

\* _selection_changed_cb: the payload emitted for a "changed" of the
\* selection of the column
_selection_changed_cb(cols, column_id) == g_slist_index(cols, column_id)

\* The selector's emissions for n "changed" signals of one column's selection
Forward(cols, column_id, n) == [k \in 1..n |-> _selection_changed_cb(cols, column_id)]

Signals(column_id, n) == [k \in 1..n |-> column_id]

----------------------------------------------------------------------------
(* The selector: operations.  Each gives the new column list, the result   *)
(* and the "changed" signals of the column it touched.                     *)

\* A SelectorColumn not in use: the address g_malloc0 gives
FreeColumnId(cols, box) ==
  CHOOSE id \in 1..(Len(cols) + Len(box) + 1) :
    /\ \A k \in 1..Len(cols) : cols[k].id # id
    /\ ~InBox(box, PanArea(id))
    /\ \A j \in 1..(id - 1) :
         (\E k \in 1..Len(cols) : cols[k].id = j) \/ InBox(box, PanArea(j))

\* Variant of _create_new_column: the first row is not selected
create_new_column_nothing_selected(st, id, model, renderer, args) ==
  LET tv0   == [model |-> model, mode |-> "GTK_SELECTION_SINGLE",
                selected |-> {}, anchor |-> NULL,
                tree_column |-> gtk_tree_view_column_new(renderer, args)]
      tv1   == gtk_tree_selection_set_mode(tv0, "GTK_SELECTION_BROWSE").tv
  IN  [id |-> id, model |-> model, tree_view |-> tv1, panarea |-> PanArea(id)]

\* _create_new_column: a tree view on the model in BROWSE mode with the first
\* row selected; the listener is connected after that selection.
_create_new_column(st, id, model, renderer, args) ==
  LET tv0   == [model |-> model, mode |-> "GTK_SELECTION_SINGLE",
                selected |-> {}, anchor |-> NULL,
                tree_column |-> gtk_tree_view_column_new(renderer, args)]
      tv1   == gtk_tree_selection_set_mode(tv0, "GTK_SELECTION_BROWSE").tv
      first == gtk_tree_model_get_iter_first(st, model)
      tv2   == IF first # NULL
               THEN gtk_tree_selection_select_iter(st, tv1, first).tv
               ELSE tv1
  IN  [id |-> id, model |-> model, tree_view |-> tv2, panarea |-> PanArea(id)]

\* The "changed" signals, of those the calls made on a selection emitted one
\* call after the other, that a listener connected after the first n calls
\* hears
RECURSIVE Heard(_, _)
Heard(signals, n) ==
  IF signals = << >> THEN 0
  ELSE (IF n > 0 THEN 0 ELSE Head(signals)) + Heard(Tail(signals), n - 1)

\* Variant of _create_new_column_heard: g_signal_connect comes before the
\* calls on the selection
create_new_column_connect_first(st, model) ==
  LET tv0   == [model |-> model, mode |-> "GTK_SELECTION_SINGLE",
                selected |-> {}, anchor |-> NULL]
      r1    == gtk_tree_selection_set_mode(tv0, "GTK_SELECTION_BROWSE")
      first == gtk_tree_model_get_iter_first(st, model)
      r2    == IF first # NULL
               THEN gtk_tree_selection_select_iter(st, r1.tv, first)
               ELSE Result(r1.tv, 0)
  IN  Heard(<< r1.changed, r2.changed >>, 0)

\* _create_new_column, the calls of _selection_changed_cb it leads to: the
\* selection's "changed" signals after g_signal_connect, which comes after
\* the two calls on the selection
_create_new_column_heard(st, model) ==
  LET tv0   == [model |-> model, mode |-> "GTK_SELECTION_SINGLE",
                selected |-> {}, anchor |-> NULL]
      r1    == gtk_tree_selection_set_mode(tv0, "GTK_SELECTION_BROWSE")
      first == gtk_tree_model_get_iter_first(st, model)
      r2    == IF first # NULL
               THEN gtk_tree_selection_select_iter(st, r1.tv, first)
               ELSE Result(r1.tv, 0)
  IN  Heard(<< r1.changed, r2.changed >>, 2)

\* Variant of hildon_touch_selector_append_column: g_slist_prepend for
\* g_slist_append
append_column_at_head(st, cols, box, model, cell_renderer, args) ==
  IF ~GTK_IS_TREE_MODEL(st, model)
  THEN [ret |-> FALSE, cols |-> cols, box |-> box, emitted |-> << >>]
  ELSE LET new_column == _create_new_column(st, FreeColumnId(cols, box), model,
                                            cell_renderer, args)
       IN  [ret |-> TRUE, cols |-> << new_column >> \o cols,
            box |-> Append(box, new_column.panarea),
            emitted |-> Forward(cols, new_column.id,
                                _create_new_column_heard(st, model))]

\* Variant of hildon_touch_selector_append_column: the first row is selected
\* at the end, the column in the list and its listener connected
append_column_select_at_end(st, cols, box, model, cell_renderer, args) ==
  IF ~GTK_IS_TREE_MODEL(st, model)
  THEN [ret |-> FALSE, cols |-> cols, box |-> box, emitted |-> << >>]
  ELSE LET new_column == _create_new_column(st, FreeColumnId(cols, box), model,
                                            cell_renderer, args)
           list       == Append(cols, new_column)
       IN  [ret |-> TRUE, cols |-> list,
            box |-> Append(box, new_column.panarea),
            emitted |-> Forward(list, new_column.id,
                                Cardinality(new_column.tree_view.selected))]

\* hildon_touch_selector_append_column: the column is made, then put at the
\* end of the list and its pannable area packed; _selection_changed_cb, when
\* called while the column is made, looks for it in the list as it was
hildon_touch_selector_append_column(st, cols, box, model, cell_renderer, args) ==
  IF ~GTK_IS_TREE_MODEL(st, model)
  THEN [ret |-> FALSE, cols |-> cols, box |-> box, emitted |-> << >>]
  ELSE LET new_column == _create_new_column(st, FreeColumnId(cols, box), model,
                                            cell_renderer, args)
       IN  [ret |-> TRUE, cols |-> Append(cols, new_column),
            box |-> Append(box, new_column.panarea),
            emitted |-> Forward(cols, new_column.id,
                                _create_new_column_heard(st, model))]

\* The attribute bindings of a text column: "text" from model field 0
TextAttributes == << << "text", 0 >> >>

\* hildon_touch_selector_append_text_column
hildon_touch_selector_append_text_column(st, cols, box, model, center) ==
  IF ~GTK_IS_TREE_MODEL(st, model)
  THEN [ret |-> FALSE, cols |-> cols, box |-> box, emitted |-> << >>]
  ELSE LET renderer == IF center
                       THEN [gtk_cell_renderer_text_new EXCEPT !.xalign = "0.5"]
                       ELSE gtk_cell_renderer_text_new
       IN  hildon_touch_selector_append_column(st, cols, box, model, renderer,
                                               TextAttributes)

\* hildon_touch_selector_remove_column
hildon_touch_selector_remove_column(cols, vb, box, column) ==
  IF ~(column < hildon_touch_selector_get_num_columns(cols))
  THEN [ret |-> FALSE, cols |-> cols, vbox |-> vb, box |-> box]
  ELSE LET current_column == g_slist_nth_data(cols, column)
       IN  IF current_column = NoColumn
           THEN [ret |-> FALSE, cols |-> cols, vbox |-> vb, box |-> box, fault |-> TRUE]
           ELSE LET r == gtk_container_remove(cols, vb, box, "selector",
                                              current_column.panarea)
                IN  [ret |-> TRUE, cols |-> r.cols, vbox |-> r.vbox, box |-> r.box]

\* hildon_touch_selector_set_column_attributes: the tree view column is
\* replaced by a new one with the renderer and the attribute bindings given
hildon_touch_selector_set_column_attributes(cols, num_column, cell_renderer, args) ==
  IF ~(num_column < hildon_touch_selector_get_num_columns(cols))
  THEN [cols |-> cols]
  ELSE LET current_column == g_slist_nth_data(cols, num_column)
       IN  IF current_column = NoColumn
           THEN [cols |-> cols, fault |-> TRUE]
           ELSE [cols |-> [cols EXCEPT ![num_column + 1].tree_view.tree_column =
                             gtk_tree_view_column_new(cell_renderer, args)]]

TreeViewMode(mode) ==
  IF mode = "SINGLE" THEN "GTK_SELECTION_SINGLE" ELSE "GTK_SELECTION_MULTIPLE"

\* Variant of hildon_touch_selector_set_column_selection_mode: the selection
\* is not cleared before the first row is selected
set_column_selection_mode_no_unselect(st, cols, mode) ==
  IF ~(hildon_touch_selector_get_num_columns(cols) > 0)
  THEN [cols |-> cols, changed |-> 0]
  ELSE LET column == g_slist_nth_data(cols, 0)
           r1     == gtk_tree_selection_set_mode(column.tree_view, TreeViewMode(mode))
           iter   == gtk_tree_model_get_iter_first(st, column.model)
           r3     == gtk_tree_selection_select_iter(st, r1.tv, iter)
       IN  [cols |-> [cols EXCEPT ![1].tree_view = r3.tv],
            changed |-> r1.changed + r3.changed]

\* Variant of hildon_touch_selector_set_column_selection_mode: the mode is
\* set on the tree view of every column
set_column_selection_mode_all_columns(st, cols, mode) ==
  IF ~(hildon_touch_selector_get_num_columns(cols) > 0)
  THEN [cols |-> cols, changed |-> 0]
  ELSE LET column == g_slist_nth_data(cols, 0)
           r1     == gtk_tree_selection_set_mode(column.tree_view, TreeViewMode(mode))
           iter   == gtk_tree_model_get_iter_first(st, column.model)
           r2     == gtk_tree_selection_unselect_all(r1.tv)
           r3     == gtk_tree_selection_select_iter(st, r2.tv, iter)
       IN  [cols |-> [k \in 1..Len(cols) |->
                        IF k = 1 THEN [cols[k] EXCEPT !.tree_view = r3.tv]
                        ELSE [cols[k] EXCEPT !.tree_view =
                                gtk_tree_selection_set_mode(cols[k].tree_view,
                                                            TreeViewMode(mode)).tv]],
            changed |-> r1.changed + r2.changed + r3.changed]

\* hildon_touch_selector_set_column_selection_mode: the mode of the first
\* column's tree view is set, its selection cleared and its first row selected
hildon_touch_selector_set_column_selection_mode(st, cols, mode) ==
  IF ~(hildon_touch_selector_get_num_columns(cols) > 0)
  THEN [cols |-> cols, changed |-> 0]
  ELSE LET column == g_slist_nth_data(cols, 0)
           r1     == gtk_tree_selection_set_mode(column.tree_view, TreeViewMode(mode))
           iter   == gtk_tree_model_get_iter_first(st, column.model)
           r2     == gtk_tree_selection_unselect_all(r1.tv)
           r3     == gtk_tree_selection_select_iter(st, r2.tv, iter)
       IN  [cols |-> [cols EXCEPT ![1].tree_view = r3.tv],
            changed |-> r1.changed + r2.changed + r3.changed]

\* hildon_touch_selector_set_print_func
hildon_touch_selector_set_print_func(pf, func) == func

\* Variant of hildon_touch_selector_set_active_iter: the row is selected only
\* inside the scroll_to branch
set_active_iter_in_scroll_branch(st, cols, column, iter, scroll_to) ==
  IF ~(column < hildon_touch_selector_get_num_columns(cols))
  THEN [cols |-> cols, changed |-> 0, scrolled |-> << >>]
  ELSE LET current_column == g_slist_nth_data(cols, column)
           model == current_column.tree_view.model
           path  == gtk_tree_model_get_path(st, model, iter)
           r1    == gtk_tree_selection_select_iter(st, current_column.tree_view, iter)
           r2    == gtk_tree_view_set_cursor(st, r1.tv, iter)
       IN  IF scroll_to
           THEN [cols |-> [cols EXCEPT ![column + 1].tree_view = r2.tv],
                 changed |-> r1.changed + r2.changed,
                 scrolled |-> << << current_column.panarea, path >> >>]
           ELSE [cols |-> cols, changed |-> 0, scrolled |-> << >>]

\* Variant of hildon_touch_selector_set_active_iter: nothing is done unless
\* the selector's mode is SINGLE
set_active_iter_single_only(st, cols, column, iter, scroll_to) ==
  IF hildon_touch_selector_get_column_selection_mode(cols) # "SINGLE"
  THEN [cols |-> cols, changed |-> 0, scrolled |-> << >>]
  ELSE IF ~(column < hildon_touch_selector_get_num_columns(cols))
  THEN [cols |-> cols, changed |-> 0, scrolled |-> << >>]
  ELSE LET current_column == g_slist_nth_data(cols, column)
       IN  IF current_column = NoColumn
           THEN [cols |-> cols, changed |-> 0, scrolled |-> << >>, fault |-> TRUE]
           ELSE LET model == current_column.tree_view.model
                    path  == gtk_tree_model_get_path(st, model, iter)
                    r1    == gtk_tree_selection_select_iter(st, current_column.tree_view,
                                                            iter)
                    r2    == gtk_tree_view_set_cursor(st, r1.tv, iter)
                IN  [cols |-> [cols EXCEPT ![column + 1].tree_view = r2.tv],
                     changed |-> r1.changed + r2.changed,
                     scrolled |-> IF scroll_to
                                  THEN << << current_column.panarea, path >> >>
                                  ELSE << >>]

\* hildon_touch_selector_set_active_iter
hildon_touch_selector_set_active_iter(st, cols, column, iter, scroll_to) ==
  IF ~(column < hildon_touch_selector_get_num_columns(cols))
  THEN [cols |-> cols, changed |-> 0, scrolled |-> << >>]
  ELSE LET current_column == g_slist_nth_data(cols, column)
       IN  IF current_column = NoColumn
           THEN [cols |-> cols, changed |-> 0, scrolled |-> << >>, fault |-> TRUE]
           ELSE LET model == current_column.tree_view.model
                    path  == gtk_tree_model_get_path(st, model, iter)
                    r1    == gtk_tree_selection_select_iter(st, current_column.tree_view,
                                                            iter)
                    r2    == gtk_tree_view_set_cursor(st, r1.tv, iter)
                IN  [cols |-> [cols EXCEPT ![column + 1].tree_view = r2.tv],
                     changed |-> r1.changed + r2.changed,
                     scrolled |-> IF scroll_to
                                  THEN << << current_column.panarea, path >> >>
                                  ELSE << >>]

\* Variant of _hildon_touch_selector_set_model: the tree view gets the model,
\* current_column->model is not assigned
set_model_view_only(cols, column, model) ==
  LET current_column == g_slist_nth_data(cols, column)
      r == gtk_tree_view_set_model(current_column.tree_view, model)
  IN  [cols |-> [cols EXCEPT ![column + 1].tree_view = r.tv],
       changed |-> r.changed]

\* Variant of _hildon_touch_selector_set_model: the model is given to every
\* column that has the model of the column named
set_model_of_sharing_columns(cols, column, model) ==
  LET current_column == g_slist_nth_data(cols, column)
  IN  IF current_column = NoColumn
      THEN [cols |-> cols, changed |-> 0, fault |-> TRUE]
      ELSE LET r == gtk_tree_view_set_model(current_column.tree_view, model)
           IN  [cols |-> [k \in 1..Len(cols) |->
                            IF cols[k].model = current_column.model
                            THEN [cols[k] EXCEPT
                                    !.model = model,
                                    !.tree_view =
                                      gtk_tree_view_set_model(cols[k].tree_view, model).tv]
                            ELSE cols[k]],
                changed |-> r.changed]

\* _hildon_touch_selector_set_model
_hildon_touch_selector_set_model(cols, column, model) ==
  LET current_column == g_slist_nth_data(cols, column)
  IN  IF current_column = NoColumn
      THEN [cols |-> cols, changed |-> 0, fault |-> TRUE]
      ELSE LET r == gtk_tree_view_set_model(current_column.tree_view, model)
           IN  [cols |-> [cols EXCEPT ![column + 1].model = model,
                                      ![column + 1].tree_view = r.tv],
                changed |-> r.changed]

\* Variant of hildon_touch_selector_set_model: the column number is not
\* checked
set_model_unchecked(cols, column, model) ==
  _hildon_touch_selector_set_model(cols, column, model)

\* hildon_touch_selector_set_model
hildon_touch_selector_set_model(cols, column, model) ==
  IF ~(column < hildon_touch_selector_get_num_columns(cols))
  THEN [cols |-> cols, changed |-> 0]
  ELSE _hildon_touch_selector_set_model(cols, column, model)

\* hildon_touch_selector_new_text: a new selector with one text column,
\* centred, over a new list store of strings
hildon_touch_selector_new_text(st) ==
  LET new == gtk_list_store_new(st)
      r   == hildon_touch_selector_append_text_column(new.store, << >>, << >>,
                                                      new.model, TRUE)
  IN  [store |-> new.store, cols |-> r.cols, box |-> r.box]

\* hildon_touch_selector_append_text: text is a gchar*
hildon_touch_selector_append_text(st, cols, text) ==
  IF text = NullStr THEN st
  ELSE LET model == hildon_touch_selector_get_model(cols, 0).ret
       IN  IF ~GTK_IS_LIST_STORE(st, model) THEN st
           ELSE gtk_list_store_append(st, model, text[1])

\* hildon_touch_selector_prepend_text
hildon_touch_selector_prepend_text(st, cols, text) ==
  IF text = NullStr THEN st
  ELSE LET model == hildon_touch_selector_get_model(cols, 0).ret
       IN  IF ~GTK_IS_LIST_STORE(st, model) THEN st
           ELSE gtk_list_store_prepend(st, model, text[1])

\* Variant of hildon_touch_selector_insert_text: the position is not checked
insert_text_any_position(st, cols, position, text) ==
  IF text = NullStr THEN st
  ELSE LET model == hildon_touch_selector_get_model(cols, 0).ret
       IN  IF ~GTK_IS_LIST_STORE(st, model) THEN st
           ELSE gtk_list_store_insert(st, model, position, text[1])

\* hildon_touch_selector_insert_text
hildon_touch_selector_insert_text(st, cols, position, text) ==
  IF text = NullStr THEN st
  ELSE IF ~(position >= 0) THEN st
  ELSE LET model == hildon_touch_selector_get_model(cols, 0).ret
       IN  IF ~GTK_IS_LIST_STORE(st, model) THEN st
           ELSE gtk_list_store_insert(st, model, position, text[1])

----------------------------------------------------------------------------
(* The selector: the centring callback and the teardown *)

\* _hildon_touch_selector_center_on_selected_items, the loop from column i:
\* the scroll requests made, each the pannable area and the path scrolled to.
\* At column 0 of a selector in MULTIPLE mode the loop is left.
RECURSIVE CenterFrom(_, _, _, _)
CenterFrom(st, cols, i, selection_mode) ==
  IF ~(i < Len(cols)) THEN << >>
  ELSE IF (i = 0) /\ (selection_mode = "MULTIPLE") THEN << >>
  ELSE LET column == cols[i + 1]
           active == hildon_touch_selector_get_active_iter(cols, i)
       IN  (IF active.ok
            THEN << << column.panarea,
                       gtk_tree_model_get_path(st, column.model, active.iter) >> >>
            ELSE << >>)
           \o CenterFrom(st, cols, i + 1, selection_mode)

\* _hildon_touch_selector_center_on_selected_items
_hildon_touch_selector_center_on_selected_items(st, cols) ==
  CenterFrom(st, cols, 0, hildon_touch_selector_get_column_selection_mode(cols))

\* gtk_container_destroy on the selector: every direct child is destroyed,
\* each leaving through the selector's GtkContainer::remove
RECURSIVE gtk_container_destroy(_, _, _)
gtk_container_destroy(cols, vb, box) ==
  IF vb = << >> THEN [cols |-> cols, vbox |-> vb, box |-> box]
  ELSE LET r == gtk_container_remove(cols, vb, box, "selector", Head(vb))
       IN  gtk_container_destroy(r.cols, r.vbox, r.box)

----------------------------------------------------------------------------
(* The state machine: a selector from hildon_touch_selector_new and the   *)
(* calls of an embedder, one action per call.                              *)

\* The record of the last call: its name, the column and the other argument
\* it was given (for a query, the value it gave), its gboolean result (TRUE
\* when it has none), the columns whose selection emitted "changed"
\* and the scroll requests it made; and what held when it was made: the
\* number of columns, the selector's mode and the number of rows selected in
\* the first column.
Call(op, col, arg, flag, ret, signalled, scrolled) ==
  [op |-> op, col |-> col, arg |-> arg, flag |-> flag, ret |-> ret,
   signalled |-> signalled, scrolled |-> scrolled,
   n0 |-> Len(columns),
   mode0 |-> hildon_touch_selector_get_column_selection_mode(columns),
   nsel0 |-> IF columns = << >> THEN 0 ELSE Cardinality(columns[1].tree_view.selected)]

\* hildon_touch_selector_new, hildon_touch_selector_init
Init ==
  /\ columns = << >>
  /\ hbox = << >>
  /\ print_func = NULL
  /\ store = InitStore
  /\ emitted = << >>
  /\ last = Call("new", NULL, NULL, FALSE, TRUE, << >>, << >>)
  /\ vbox = << HBoxWidget >>
  /\ mapped = FALSE
  /\ timeouts = 0
  /\ destroyed = FALSE
  /\ fault = "none"

\* The embedder calls a selector it has not destroyed, whose hbox it has not
\* removed, in a process that runs
Usable == fault = "none" /\ ~destroyed /\ InBox(vbox, HBoxWidget)

\* What a call does to the process: it ends it when it read or wrote
\* through NULL
FaultOf(r) == IF Faulted(r) THEN "SIGSEGV" ELSE "none"

AppendColumn(model) ==
  /\ Usable
  /\ Len(columns) < MaxCols
  /\ LET r == hildon_touch_selector_append_column(store, columns, hbox, model,
                                                  gtk_cell_renderer_text_new,
                                                  TextAttributes)
     IN  /\ columns' = r.cols
         /\ hbox' = r.box
         /\ emitted' = r.emitted
         /\ last' = Call("append_column", NULL, model, FALSE, r.ret,
                         Signals(r.cols[Len(r.cols)].id, Len(r.emitted)), << >>)
  /\ UNCHANGED <<print_func, store, life, fault>>

AppendTextColumn(model, center) ==
  /\ Usable
  /\ Len(columns) < MaxCols
  /\ LET r == hildon_touch_selector_append_text_column(store, columns, hbox, model,
                                                       center)
     IN  /\ columns' = r.cols
         /\ hbox' = r.box
         /\ emitted' = r.emitted
         /\ last' = Call("append_text_column", NULL, model, center, r.ret,
                         Signals(r.cols[Len(r.cols)].id, Len(r.emitted)), << >>)
  /\ UNCHANGED <<print_func, store, life, fault>>

RemoveColumn(column) ==
  /\ Usable
  /\ LET r == hildon_touch_selector_remove_column(columns, vbox, hbox, column)
     IN  /\ columns' = r.cols
         /\ hbox' = r.box
         /\ vbox' = r.vbox
         /\ emitted' = << >>
         /\ last' = Call("remove_column", column, NULL, FALSE, r.ret,
                         << >>, << >>)
         /\ fault' = FaultOf(r)
  /\ UNCHANGED <<print_func, store, mapped, timeouts, destroyed>>

\* The attribute lists set_column_attributes is tried with
AttributeLists == { << << "markup", 0 >> >> }

SetColumnAttributes(column, args) ==
  /\ Usable
  /\ LET r == hildon_touch_selector_set_column_attributes(columns, column,
                                                          gtk_cell_renderer_text_new,
                                                          args)
     IN  /\ columns' = r.cols
         /\ emitted' = << >>
         /\ last' = Call("set_column_attributes", column, args, FALSE, TRUE,
                         << >>, << >>)
         /\ fault' = FaultOf(r)
  /\ UNCHANGED <<hbox, print_func, store, life>>

SetColumnSelectionMode(mode) ==
  /\ Usable
  /\ LET r == hildon_touch_selector_set_column_selection_mode(store, columns, mode)
         id == IF columns = << >> THEN NULL ELSE columns[1].id
     IN  /\ columns' = r.cols
         /\ emitted' = Forward(columns, id, r.changed)
         /\ last' = Call("set_column_selection_mode", NULL, mode, FALSE, TRUE,
                         Signals(id, r.changed), << >>)
  /\ UNCHANGED <<hbox, print_func, store, life, fault>>

SetPrintFunc(func) ==
  /\ Usable
  /\ print_func' = hildon_touch_selector_set_print_func(print_func, func)
  /\ emitted' = << >>
  /\ last' = Call("set_print_func", NULL, func, FALSE, TRUE, << >>, << >>)
  /\ UNCHANGED <<columns, hbox, store, life, fault>>

\* The column a call names, NULL when there is none with that number
ColumnId(column) ==
  IF column \in 0..(Len(columns) - 1) THEN columns[column + 1].id ELSE NULL

\* The rows an embedder has an iter of for the column: those of its model
Iters(column) ==
  IF column \in 0..(Len(columns) - 1)
  THEN RowIds(store, columns[column + 1].model) ELSE {NULL}

SetActiveIter(column, iter, scroll_to) ==
  /\ Usable
  /\ iter \in Iters(column)
  /\ LET r == hildon_touch_selector_set_active_iter(store, columns, column, iter, scroll_to)
         id == ColumnId(column)
     IN  /\ columns' = r.cols
         /\ emitted' = Forward(columns, id, r.changed)
         /\ last' = Call("set_active_iter", column, iter, scroll_to, TRUE,
                         Signals(id, r.changed), r.scrolled)
         /\ fault' = FaultOf(r)
  /\ UNCHANGED <<hbox, print_func, store, life>>

SetModel(column, model) ==
  /\ Usable
  /\ LET r == hildon_touch_selector_set_model(columns, column, model)
         id == ColumnId(column)
     IN  /\ columns' = r.cols
         /\ emitted' = Forward(columns, id, r.changed)
         /\ last' = Call("set_model", column, model, FALSE, TRUE,
                         Signals(id, r.changed), << >>)
         /\ fault' = FaultOf(r)
  /\ UNCHANGED <<hbox, print_func, store, life>>

GetModel(column) ==
  /\ Usable
  /\ LET r == hildon_touch_selector_get_model(columns, column)
     IN  /\ last' = Call("get_model", column, r.ret, FALSE, TRUE, << >>, << >>)
         /\ fault' = FaultOf(r)
  /\ emitted' = << >>
  /\ UNCHANGED <<columns, hbox, print_func, store, life>>

GetSelectedRows(column) ==
  /\ Usable
  /\ LET r == hildon_touch_selector_get_selected_rows(store, columns, column)
     IN  /\ last' = Call("get_selected_rows", column, r.ret, FALSE, TRUE, << >>, << >>)
         /\ fault' = FaultOf(r)
  /\ emitted' = << >>
  /\ UNCHANGED <<columns, hbox, print_func, store, life>>

GetActiveIter(column) ==
  /\ Usable
  /\ LET r == hildon_touch_selector_get_active_iter(columns, column)
     IN  /\ last' = Call("get_active_iter", column, r.iter, FALSE, r.ok, << >>, << >>)
         /\ fault' = FaultOf(r)
  /\ emitted' = << >>
  /\ UNCHANGED <<columns, hbox, print_func, store, life>>

\* The user taps a row of a column's view
Tap(column, iter) ==
  /\ Usable
  /\ column < Len(columns)
  /\ iter \in RowIds(store, columns[column + 1].tree_view.model)
  /\ LET r == TapRow(store, columns[column + 1].tree_view, iter)
         id == columns[column + 1].id
     IN  /\ columns' = [columns EXCEPT ![column + 1].tree_view = r.tv]
         /\ emitted' = Forward(columns, id, r.changed)
         /\ last' = Call("tap", column, iter, FALSE, TRUE,
                         Signals(id, r.changed), << >>)
  /\ UNCHANGED <<hbox, print_func, store, life, fault>>

\* The column numbers the calls are tried with: the columns there are and the
\* first number past them
ColumnArgs == 0..Len(columns)

AllIters == UNION { RowIds(store, model) : model \in ModelIds }

Next ==
  \/ \E model \in ModelIds \cup {NULL} : AppendColumn(model)
  \/ \E column \in ColumnArgs : RemoveColumn(column)
  \/ \E mode \in SelectionModes : SetColumnSelectionMode(mode)
  \/ \E func \in PrintFuncs \cup {NULL} : SetPrintFunc(func)
  \/ \E column \in ColumnArgs, iter \in AllIters \cup {NULL}, scroll_to \in BOOLEAN :
       SetActiveIter(column, iter, scroll_to)
  \/ \E column \in ColumnArgs, model \in ModelIds \cup {NULL} : SetModel(column, model)
  \/ \E column \in ColumnArgs, iter \in AllIters : Tap(column, iter)

Spec == Init /\ [][Next]_vars

----------------------------------------------------------------------------
(* The widget's life: it is mapped and unmapped, the timeout armed by the  *)
(* map handler runs, children are packed and removed, and it is destroyed. *)

\* gtk_widget_map: hildon_touch_selector_map chains up and arms a timeout
\* with the selector as its data
Map ==
  /\ fault = "none" /\ ~destroyed
  /\ ~mapped
  /\ timeouts < MaxTimeouts
  /\ mapped' = TRUE
  /\ timeouts' = timeouts + 1
  /\ emitted' = << >>
  /\ last' = Call("map", NULL, NULL, FALSE, TRUE, << >>, << >>)
  /\ UNCHANGED <<columns, hbox, print_func, store, vbox, destroyed, fault>>

\* gtk_widget_unmap: the selector has no handler of its own
Unmap ==
  /\ fault = "none" /\ ~destroyed
  /\ mapped
  /\ mapped' = FALSE
  /\ emitted' = << >>
  /\ last' = Call("unmap", NULL, NULL, FALSE, TRUE, << >>, << >>)
  /\ UNCHANGED <<columns, hbox, print_func, store, vbox, timeouts, destroyed, fault>>

\* The callback's data points to released memory, or the columns point to
\* tree views that went with priv->hbox
Dangling == destroyed \/ (columns # << >> /\ ~InBox(vbox, HBoxWidget))

\* The main loop runs a timeout: _hildon_touch_selector_center_on_selected_items
\* with the selector it was armed with; it returns FALSE, so the timeout is
\* gone.  Through a dangling pointer it reads what the memory holds by then:
\* the process ends before any scroll request, or after those the old
\* contents ask for.
CenterOnSelectedItems ==
  /\ fault = "none"
  /\ timeouts > 0
  /\ timeouts' = timeouts - 1
  /\ emitted' = << >>
  /\ IF Dangling
     THEN /\ fault' = "use_after_free"
          /\ \E scrolled \in { << >>,
                                _hildon_touch_selector_center_on_selected_items(store,
                                                                                columns) } :
               last' = Call("center_on_selected_items", NULL, NULL, FALSE, FALSE,
                            << >>, scrolled)
     ELSE /\ fault' = "none"
          /\ last' = Call("center_on_selected_items", NULL, NULL, FALSE, FALSE, << >>,
                          _hildon_touch_selector_center_on_selected_items(store, columns))
  /\ UNCHANGED <<columns, hbox, print_func, store, vbox, mapped, destroyed>>

\* gtk_widget_destroy on the selector, nobody else holding it: the children
\* are destroyed, the widget is unmapped and its memory released.  Nothing
\* removes the timeouts.
Destroy ==
  /\ fault = "none" /\ ~destroyed
  /\ LET r == gtk_container_destroy(columns, vbox, hbox)
     IN  /\ columns' = r.cols
         /\ vbox' = r.vbox
         /\ hbox' = r.box
  /\ mapped' = FALSE
  /\ destroyed' = TRUE
  /\ emitted' = << >>
  /\ last' = Call("destroy", NULL, NULL, FALSE, TRUE, << >>, << >>)
  /\ UNCHANGED <<print_func, store, timeouts, fault>>

\* gtk_box_pack_start (GTK_BOX (selector), widget, ...) by the embedder
PackWidget(k) ==
  /\ fault = "none" /\ ~destroyed
  /\ ~InBox(vbox, ExtraWidget(k))
  /\ vbox' = Append(vbox, ExtraWidget(k))
  /\ emitted' = << >>
  /\ last' = Call("pack", NULL, ExtraWidget(k), FALSE, TRUE, << >>, << >>)
  /\ UNCHANGED <<columns, hbox, print_func, store, mapped, timeouts, destroyed, fault>>

\* gtk_container_remove (GTK_CONTAINER (selector), widget) by the embedder
ContainerRemove(widget) ==
  /\ fault = "none" /\ ~destroyed
  /\ LET r == gtk_container_remove(columns, vbox, hbox, "selector", widget)
     IN  /\ columns' = r.cols
         /\ vbox' = r.vbox
         /\ hbox' = r.box
  /\ emitted' = << >>
  /\ last' = Call("container_remove", NULL, widget, FALSE, TRUE, << >>, << >>)
  /\ UNCHANGED <<print_func, store, mapped, timeouts, destroyed, fault>>

\* The widgets container_remove is tried with
Widgets ==
  {HBoxWidget} \cup { ExtraWidget(k) : k \in 1..MaxExtra }
               \cup { PanArea(id) : id \in 1..MaxCols }

\* The models of the columns in this part: rows A and B, and no row
LifeModels == {1, 3}

NextLife ==
  \/ \E model \in LifeModels : AppendColumn(model)
  \/ \E mode \in SelectionModes : SetColumnSelectionMode(mode)
  \/ \E column \in ColumnArgs, iter \in AllIters : Tap(column, iter)
  \/ Map
  \/ Unmap
  \/ CenterOnSelectedItems
  \/ Destroy
  \/ \E k \in 1..MaxExtra : PackWidget(k)
  \/ \E widget \in Widgets : ContainerRemove(widget)

SpecLife == Init /\ [][NextLife]_vars

----------------------------------------------------------------------------
(* The calls that name a column, tried with every number from -1 to past   *)
(* the last column.                                                        *)

IndexArgs == -1..(Len(columns) + 1)

\* The models these calls are tried with: rows A and B, and no model
IndexModels == {1, NULL}

NextIndex ==
  \/ \E model \in IndexModels : AppendColumn(model)
  \/ \E mode \in SelectionModes : SetColumnSelectionMode(mode)
  \/ \E column \in IndexArgs : GetModel(column)
  \/ \E column \in IndexArgs, model \in IndexModels : SetModel(column, model)
  \/ \E column \in IndexArgs : GetActiveIter(column)
  \/ \E column \in IndexArgs, iter \in AllIters \cup {NULL}, scroll_to \in BOOLEAN :
       SetActiveIter(column, iter, scroll_to)
  \/ \E column \in IndexArgs : GetSelectedRows(column)
  \/ \E column \in IndexArgs : RemoveColumn(column)
  \/ \E column \in IndexArgs, args \in AttributeLists : SetColumnAttributes(column, args)

SpecIndex == Init /\ [][NextIndex]_vars

----------------------------------------------------------------------------
(* Both ways of appending a column, with models that have rows, have none  *)
(* or are no model, between changes of the mode and of the selection.      *)

\* A pointer to an object that is no GtkTreeModel
NotAModel == Len(InitStore) + 1

NextAppend ==
  \/ \E model \in ModelIds \cup {NULL, NotAModel} : AppendColumn(model)
  \/ \E model \in ModelIds \cup {NULL, NotAModel}, center \in BOOLEAN :
       AppendTextColumn(model, center)
  \/ \E mode \in SelectionModes : SetColumnSelectionMode(mode)
  \/ \E column \in ColumnArgs, iter \in AllIters : Tap(column, iter)

SpecAppend == Init /\ [][NextAppend]_vars

----------------------------------------------------------------------------
(* Every call that makes a selection emit "changed", with columns appended *)
(* and removed between them, the children of the selector removed and the  *)
(* selector destroyed.  Destroying a tree view emits no "changed": it lets *)
(* go of its selection before it drops its model.                          *)

NextChanged ==
  \/ \E model \in ModelIds \cup {NULL} : AppendColumn(model)
  \/ \E column \in ColumnArgs : RemoveColumn(column)
  \/ \E mode \in SelectionModes : SetColumnSelectionMode(mode)
  \/ \E column \in ColumnArgs, iter \in AllIters \cup {NULL}, scroll_to \in BOOLEAN :
       SetActiveIter(column, iter, scroll_to)
  \/ \E column \in ColumnArgs, model \in ModelIds \cup {NULL} : SetModel(column, model)
  \/ \E column \in ColumnArgs, iter \in AllIters : Tap(column, iter)
  \/ \E widget \in Widgets : ContainerRemove(widget)
  \/ Destroy

SpecChanged == Init /\ [][NextChanged]_vars

----------------------------------------------------------------------------
(* A text selector: hildon_touch_selector_new_text and the calls that add  *)
(* rows to the list store of its column, between changes of the mode and   *)
(* of the selection.                                                       *)

\* The strings the rows are added with, one after the other, so that the
\* rows of the list differ
Texts == << "T", "U", "V", "W" >>

\* hildon_touch_selector_new_text
InitText ==
  LET r == hildon_touch_selector_new_text(InitStore)
  IN  /\ columns = r.cols
      /\ hbox = r.box
      /\ print_func = NULL
      /\ store = r.store
      /\ emitted = << >>
      /\ last = Call("new_text", NULL, NULL, FALSE, TRUE, << >>, << >>)
      /\ vbox = << HBoxWidget >>
      /\ mapped = FALSE
      /\ timeouts = 0
      /\ destroyed = FALSE
      /\ fault = "none"

\* The rows of the model of the first column
FirstRows == Rows(store, hildon_touch_selector_get_model(columns, 0).ret)

\* The call adds no row, or there is room for one
RoomFor(st) == st = store \/ Len(FirstRows) < MaxRows

AppendText(text) ==
  /\ Usable
  /\ LET st == hildon_touch_selector_append_text(store, columns, text)
     IN  /\ RoomFor(st)
         /\ store' = st
  /\ emitted' = << >>
  /\ last' = Call("append_text", NULL, text, FALSE, TRUE, << >>, << >>)
  /\ UNCHANGED <<columns, hbox, print_func, life, fault>>

PrependText(text) ==
  /\ Usable
  /\ LET st == hildon_touch_selector_prepend_text(store, columns, text)
     IN  /\ RoomFor(st)
         /\ store' = st
  /\ emitted' = << >>
  /\ last' = Call("prepend_text", NULL, text, FALSE, TRUE, << >>, << >>)
  /\ UNCHANGED <<columns, hbox, print_func, life, fault>>

InsertText(position, text) ==
  /\ Usable
  /\ LET st == hildon_touch_selector_insert_text(store, columns, position, text)
     IN  /\ RoomFor(st)
         /\ store' = st
  /\ emitted' = << >>
  /\ last' = Call("insert_text", position, text, FALSE, TRUE, << >>, << >>)
  /\ UNCHANGED <<columns, hbox, print_func, life, fault>>

\* The texts a call is tried with: the next string, and NULL
TextArgs == { Str(Texts[(Len(FirstRows) % Len(Texts)) + 1]), NullStr }

\* The positions insert_text is tried with: from -1 to past the end
PositionArgs == -1..(Len(FirstRows) + 1)

NextText ==
  \/ \E text \in TextArgs : AppendText(text)
  \/ \E text \in TextArgs : PrependText(text)
  \/ \E position \in PositionArgs, text \in TextArgs : InsertText(position, text)
  \/ \E mode \in SelectionModes : SetColumnSelectionMode(mode)
  \/ \E iter \in Iters(0) : Tap(0, iter)
  \/ \E iter \in Iters(0), scroll_to \in BOOLEAN : SetActiveIter(0, iter, scroll_to)
  \/ \E column \in ColumnArgs : GetSelectedRows(column)

SpecText == InitText /\ [][NextText]_vars

----------------------------------------------------------------------------
(* Properties *)

NumColumns == hildon_touch_selector_get_num_columns(columns)

Mode == hildon_touch_selector_get_column_selection_mode(columns)

CurrentText == hildon_touch_selector_get_current_text(print_func, store, columns)

HildonMode(treeview_mode) ==
  IF treeview_mode = "GTK_SELECTION_MULTIPLE" THEN "MULTIPLE" ELSE "SINGLE"

\* The position in the list of the column with this identity, counted from 0
PositionOf(cols, column_id) ==
  (CHOOSE k \in 1..Len(cols) : cols[k].id = column_id) - 1

\* The strings of a sequence joined by a separator
RECURSIVE Join(_, _)
Join(strings, sep) ==
  IF strings = << >> THEN ""
  ELSE IF Len(strings) = 1 THEN strings[1]
  ELSE strings[1] \o sep \o Join(Tail(strings), sep)

\* The texts of the rows selected in a column, in the order of its view
RECURSIVE SelectedTexts(_, _)
SelectedTexts(column, k) ==
  IF k > Len(Rows(store, column.model)) THEN << >>
  ELSE (IF Rows(store, column.model)[k].id \in column.tree_view.selected
        THEN << Rows(store, column.model)[k].text >> ELSE << >>)
       \o SelectedTexts(column, k + 1)

\* The active values of the columns from position k on (1-based) that have an
\* active row, in column order; a column with no active row gives nothing.
RECURSIVE ActiveValues(_)
ActiveValues(k) ==
  IF k > Len(columns) THEN << >>
  ELSE (IF columns[k].tree_view.mode # "GTK_SELECTION_MULTIPLE"
           /\ columns[k].tree_view.selected # {}
        THEN SelectedTexts(columns[k], 1) ELSE << >>)
       \o ActiveValues(k + 1)

\* C1: has_multiple_selection is true exactly when there is more than one
\* column or the selection mode (that of the first column) is multiple,
\* whatever calls came before.
THM_C1 ==
  hildon_touch_selector_has_multiple_selection(columns)
    <=> \/ Len(columns) > 1
        \/ Len(columns) >= 1 /\ columns[1].tree_view.mode = "GTK_SELECTION_MULTIPLE"

\* A single-mode selector that got its second column: the answer is TRUE
W_C1 ==
  /\ last.op = "append_column" /\ last.ret /\ last.n0 = 1
  /\ Mode = "SINGLE"
  /\ hildon_touch_selector_has_multiple_selection(columns)

\* C2: remove_column(i) with 0 <= i < column count returns TRUE and leaves
\* one column less.
CEX_C2 ==
  (last.op = "remove_column" /\ last.col < last.n0)
    => (last.ret /\ NumColumns = last.n0 - 1)

CEX_C4 ==
  (print_func = NULL /\ Mode = "SINGLE" /\ ActiveValues(1) # << >>)
    => CurrentText = Str(Join(ActiveValues(1), ":"))

\* C5: in multiple mode the default text is the selected values of the first
\* column, comma separated in parentheses, then ":" and the active value for
\* every further column that has an active row.
CEX_C5 ==
  (print_func = NULL /\ Mode = "MULTIPLE" /\ Len(columns) >= 1)
    => CurrentText =
         Str("(" \o Join(SelectedTexts(columns[1], 1), ",") \o ")"
             \o Join(<< "" >> \o ActiveValues(2), ":"))

\* C6: get_print_func gives the function set last (NULL on a new selector),
\* and get_current_text gives that function's result when it is not NULL and
\* the default formatter's otherwise.
THM_C6 ==
  /\ hildon_touch_selector_get_print_func(print_func) = NULL
  /\ [][ /\ hildon_touch_selector_get_print_func(print_func') =
              IF last'.op = "set_print_func" THEN last'.arg
              ELSE hildon_touch_selector_get_print_func(print_func)
         /\ CurrentText' =
              IF hildon_touch_selector_get_print_func(print_func') # NULL
              THEN CallPrintFunc(print_func', store', columns')
              ELSE _default_print_func(store', columns') ]_vars

\* A print function is installed and a later call did not remove it
W_C6 ==
  /\ print_func # NULL /\ last.op = "set_active_iter"
  /\ CurrentText = CallPrintFunc(print_func, store, columns)
  /\ CurrentText # _default_print_func(store, columns)

\* C7: in single mode, after set_active_iter(i, r, scroll_to) on a column i
\* of the list and a row r of its model, get_active_iter(i) is TRUE with r.
THM_C7 ==
  ( /\ last.op = "set_active_iter"
    /\ Mode = "SINGLE"
    /\ last.col < Len(columns)
    /\ last.arg \in RowIds(store, columns[last.col + 1].model) )
  => hildon_touch_selector_get_active_iter(columns, last.col)
       = [ok |-> TRUE, iter |-> last.arg]

\* The second column was moved off its first row, with scrolling
W_C7 ==
  /\ last.op = "set_active_iter" /\ last.col = 1 /\ last.flag
  /\ Len(columns) = 2 /\ Mode = "SINGLE"
  /\ last.arg # gtk_tree_model_get_iter_first(store, columns[2].model)
  /\ hildon_touch_selector_get_active_iter(columns, 1).iter = last.arg

\* C8: get_model(i) is the model given to the last set_model on the column
\* now at i, and the model the column was appended with when there was none.
THM_C8 ==
  [][ \A i \in 0..(Len(columns') - 1) :
        hildon_touch_selector_get_model(columns', i).ret =
          IF last'.op = "set_model" /\ last'.col = i THEN last'.arg
          ELSE IF \E k \in 1..Len(columns) : columns[k].id = columns'[i + 1].id
          THEN hildon_touch_selector_get_model(columns,
                                               PositionOf(columns, columns'[i + 1].id)).ret
          ELSE last'.arg ]_vars

\* set_model gave the second column a model the first does not have
W_C8 ==
  /\ last.op = "set_model" /\ last.col = 1 /\ Len(columns) = 2
  /\ hildon_touch_selector_get_model(columns, 1).ret = last.arg
  /\ hildon_touch_selector_get_model(columns, 0).ret # last.arg
  /\ last.signalled # << >>

\* C9: after set_column_selection_mode, a first column whose model has rows
\* has its first row selected and no other.
THM_C9 ==
  ( /\ last.op = "set_column_selection_mode"
    /\ Len(columns) >= 1
    /\ Rows(store, columns[1].model) # << >> )
  => /\ columns[1].tree_view.selected = { Rows(store, columns[1].model)[1].id }
     /\ hildon_touch_selector_get_selected_rows(store, columns, 0).ret = << 1 >>

\* From multiple mode with two rows selected to single mode
W_C9 ==
  /\ last.op = "set_column_selection_mode" /\ last.arg = "SINGLE"
  /\ last.mode0 = "MULTIPLE" /\ last.nsel0 = 2
  /\ columns[1].tree_view.selected = { Rows(store, columns[1].model)[1].id }

\* C10: after set_column_selection_mode(m) every column has mode m.
CEX_C10 ==
  (last.op = "set_column_selection_mode" /\ Len(columns) >= 1)
    => \A k \in 1..Len(columns) : HildonMode(columns[k].tree_view.mode) = last.arg

\* C10, amended: set_column_selection_mode(m) gives the first column mode m,
\* which is the mode get_column_selection_mode reports, and leaves the mode
\* of every other column as it was.
THM_C10 ==
  [][ (last'.op = "set_column_selection_mode" /\ Len(columns) >= 1)
      => /\ Len(columns') = Len(columns)
         /\ HildonMode(columns'[1].tree_view.mode) = last'.arg
         /\ hildon_touch_selector_get_column_selection_mode(columns') = last'.arg
         /\ \A k \in 2..Len(columns) :
              columns'[k].tree_view.mode = columns[k].tree_view.mode ]_vars

\* Multiple mode was set on a selector of two columns; the second is not in it
W_C10 ==
  /\ last.op = "set_column_selection_mode" /\ last.arg = "MULTIPLE"
  /\ Len(columns) = 2
  /\ columns[1].tree_view.mode = "GTK_SELECTION_MULTIPLE"
  /\ columns[2].tree_view.mode = "GTK_SELECTION_BROWSE"

\* C11: while the selector's mode is multiple, get_active_iter returns FALSE
\* for every column number, in or out of range, and changes neither the
\* column list, the layout, the models nor the print function, and emits
\* nothing.
THM_C11 ==
  [][ (last'.op = "get_active_iter" /\ Mode = "MULTIPLE")
      => /\ ~last'.ret
         /\ fault' = "none"
         /\ emitted' = << >>
         /\ UNCHANGED <<columns, hbox, store, print_func>> ]_vars

\* Multiple mode, and the second column, asked for, has an active row
W_C11 ==
  /\ last.op = "get_active_iter" /\ last.col = 1 /\ ~last.ret
  /\ Mode = "MULTIPLE" /\ Len(columns) = 2
  /\ columns[2].tree_view.mode = "GTK_SELECTION_BROWSE"
  /\ columns[2].tree_view.selected # {}

\* C12: while the selector's mode is multiple, set_active_iter leaves the
\* selected rows of every column as they were and emits no "changed".
CEX_C12 ==
  [][ (last'.op = "set_active_iter" /\ Mode = "MULTIPLE")
      => /\ Len(columns') = Len(columns)
         /\ \A k \in 1..Len(columns) :
              columns'[k].tree_view.selected = columns[k].tree_view.selected
         /\ emitted' = << >> ]_vars

\* C12, amended: while the selector's mode is multiple, set_active_iter is
\* carried out as in single mode: for a column i of the list and a row r of
\* its model, r becomes the one selected row of column i, "changed" is
\* emitted, with payload i only, every other column and the mode stay as
\* they were.
THM_C12 ==
  [][ ( /\ last'.op = "set_active_iter"
        /\ Mode = "MULTIPLE"
        /\ last'.col < Len(columns)
        /\ last'.arg \in RowIds(store, columns[last'.col + 1].model) )
      => /\ Len(columns') = Len(columns)
         /\ columns'[last'.col + 1].tree_view.selected = {last'.arg}
         /\ \A k \in 1..Len(columns) : k # last'.col + 1 => columns'[k] = columns[k]
         /\ emitted' # << >>
         /\ \A k \in 1..Len(emitted') : emitted'[k] = last'.col
         /\ hildon_touch_selector_get_column_selection_mode(columns') = "MULTIPLE" ]_vars

\* Multiple mode with two rows selected in the first column, which
\* set_active_iter brought down to the row it was given
W_C12 ==
  /\ last.op = "set_active_iter" /\ last.col = 0
  /\ last.mode0 = "MULTIPLE" /\ last.nsel0 = 2
  /\ columns[1].tree_view.selected = {last.arg}
  /\ emitted # << >>

\* The calls that name a column
IndexOps ==
  { "get_model", "set_model", "get_active_iter", "set_active_iter",
    "get_selected_rows", "remove_column", "set_column_attributes" }

\* C13: for a column number >= the number of columns, get_model gives NULL,
\* get_selected_rows the empty list (NULL), get_active_iter and
\* remove_column FALSE, and none of the calls that name a column changes the
\* column list, the layout, the models or the print function, emits
\* "changed" or faults.
THM_C13 ==
  [][ (last'.op \in IndexOps /\ last'.col >= Len(columns))
      => /\ UNCHANGED <<columns, hbox, vbox, store, print_func>>
         /\ emitted' = << >>
         /\ fault' = "none"
         /\ last'.op = "get_model" => last'.arg = NULL
         /\ last'.op = "get_selected_rows" => last'.arg = << >>
         /\ last'.op \in {"get_active_iter", "remove_column"} => ~last'.ret ]_vars

\* set_model with the number just past the last of two columns and a model
\* that none of them has
W_C13 ==
  /\ last.op = "set_model" /\ last.col = 2 /\ Len(columns) = 2
  /\ last.arg # columns[1].model /\ last.arg # columns[2].model
  /\ fault = "none"

\* C14: a call that names a column with a negative number is turned down by
\* its guard: it reads and writes nothing through a column that does not
\* exist, so the process does not fault, and it changes nothing.
CEX_C14 ==
  (last.op \in IndexOps /\ last.col < 0) => (fault = "none" /\ emitted = << >>)

\* C15: append_column and append_text_column with a tree model return TRUE,
\* add one column, at the last place, whose model is the one given, and
\* leave every column there was at its place as it was; with NULL or with
\* what is no tree model they return FALSE and change nothing.
THM_C15 ==
  [][ (last'.op \in {"append_column", "append_text_column"})
      => IF last'.arg \in ModelIds
         THEN /\ last'.ret
              /\ Len(columns') = Len(columns) + 1
              /\ hildon_touch_selector_get_model(columns', Len(columns)).ret = last'.arg
              /\ \A k \in 1..Len(columns) : columns'[k] = columns[k]
              /\ UNCHANGED <<store, print_func>>
         ELSE /\ ~last'.ret
              /\ UNCHANGED <<columns, hbox, vbox, store, print_func>>
              /\ emitted' = << >> ]_vars

\* append_text_column gave a second column to a selector in multiple mode
\* whose first column has two rows selected, and they still are
W_C15 ==
  /\ last.op = "append_text_column" /\ last.ret /\ last.flag
  /\ last.n0 = 1 /\ last.mode0 = "MULTIPLE" /\ last.nsel0 = 2
  /\ Len(columns) = 2
  /\ Cardinality(columns[1].tree_view.selected) = 2
  /\ hildon_touch_selector_get_model(columns, 1).ret = last.arg
  /\ last.arg # columns[1].model

\* C16: right after a successful append_column or append_text_column the
\* new column is in single mode and its selected rows are the first row of
\* its model, or none when the model has no row.
THM_C16 ==
  (last.op \in {"append_column", "append_text_column"} /\ last.ret)
    => LET new_column == columns[Len(columns)]
       IN  /\ HildonMode(new_column.tree_view.mode) = "SINGLE"
           /\ new_column.tree_view.selected =
                IF Rows(store, new_column.model) = << >> THEN {}
                ELSE { Rows(store, new_column.model)[1].id }

\* A second column over rows A and B was appended to a selector in multiple
\* mode: it is in single mode with A selected
W_C16 ==
  /\ last.op = "append_column" /\ last.ret /\ last.mode0 = "MULTIPLE"
  /\ Len(columns) = 2
  /\ columns[2].tree_view.mode = "GTK_SELECTION_BROWSE"
  /\ Len(Rows(store, columns[2].model)) = 2
  /\ columns[2].tree_view.selected = { Rows(store, columns[2].model)[1].id }

\* C17: a centring callback that runs after the selector was destroyed reads
\* and writes nothing of it: no access to released memory, no scroll request.
CEX_C17 ==
  (last.op = "center_on_selected_items" /\ destroyed)
    => (fault = "none" /\ last.scrolled = << >>)

\* The scroll requests for the columns from position k on (1-based) that
\* have an active row, the first column of a selector in multiple mode left
\* out
RECURSIVE ActiveRowScrolls(_)
ActiveRowScrolls(k) ==
  IF k > Len(columns) THEN << >>
  ELSE (IF /\ ~(k = 1 /\ Mode = "MULTIPLE")
           /\ columns[k].tree_view.mode # "GTK_SELECTION_MULTIPLE"
           /\ columns[k].tree_view.selected # {}
        THEN << << columns[k].panarea,
                   gtk_tree_model_get_path(store, columns[k].model,
                                           CHOOSE r \in columns[k].tree_view.selected : TRUE)
                >> >>
        ELSE << >>)
       \o ActiveRowScrolls(k + 1)

\* C18: the centring callback of a live selector scrolls every column that
\* has an active row to that row, but for the first column of a selector in
\* multiple mode; the other columns are centred in multiple mode too.
CEX_C18 ==
  (last.op = "center_on_selected_items" /\ fault = "none")
    => last.scrolled = ActiveRowScrolls(1)

\* A column's tree view lives as long as its pannable area is packed
ViewAlive(box, column) == InBox(box, column.panarea)

\* The selector's GtkContainer::remove ran for a widget that is not the
\* pannable area of a column
RemovedOther ==
  /\ last'.op = "container_remove"
  /\ widget_parent(vbox, hbox, last'.arg) = "selector"
  /\ \A k \in 1..Len(columns) : columns[k].panarea # last'.arg

CEX_C20 ==
  \A k \in 1..Len(columns) :
    /\ columns[k].model # NULL
    /\ hildon_touch_selector_get_model(columns, k - 1).ret # NULL

\* The model of the first column
FirstModel == hildon_touch_selector_get_model(columns, 0).ret

\* One row with the text was added to the rows at the place at (1-based):
\* a row of its own, the rows there were in the order they had
AddedAt(rows, rows2, at, text) ==
  /\ Len(rows2) = Len(rows) + 1
  /\ at \in 1..Len(rows2)
  /\ rows2[at].text = text
  /\ \A k \in 1..Len(rows) : rows[k].id # rows2[at].id
  /\ SubSeq(rows2, 1, at - 1) \o SubSeq(rows2, at + 1, Len(rows2)) = rows

\* What the calls that add text leave alone: the columns with their modes
\* and selections, and the rows of every other model
TextFrame ==
  /\ UNCHANGED <<columns, hbox, print_func>>
  /\ Len(columns') = Len(columns)
  /\ hildon_touch_selector_get_column_selection_mode(columns') = Mode
  /\ \A m \in DOMAIN store : m # FirstModel => store'[m] = store[m]

\* A selector from new_text: one column in single mode over a list store
\* with no row
NewTextSelector ==
  /\ NumColumns = 1
  /\ Mode = "SINGLE"
  /\ GTK_IS_LIST_STORE(store, FirstModel)
  /\ FirstRows = << >>

\* C21: a selector from new_text has one column, in single mode, over an
\* empty list of strings; append_text(t) adds t as the last row,
\* prepend_text(t) as the first, insert_text(p, t) with p >= 0 at position p,
\* each one row, the rows there were keeping their order, the number of
\* columns and the mode staying; a negative position or a NULL text adds no
\* row.
CEX_C21 ==
  /\ NewTextSelector
  /\ [][ (last'.op \in {"append_text", "prepend_text", "insert_text"})
         => /\ TextFrame
            /\ IF last'.arg = NullStr \/ (last'.op = "insert_text" /\ last'.col < 0)
               THEN store' = store
               ELSE AddedAt(FirstRows, FirstRows',
                            CASE last'.op = "append_text" -> Len(FirstRows) + 1
                              [] last'.op = "prepend_text" -> 1
                              [] last'.op = "insert_text" -> last'.col + 1,
                            last'.arg[1]) ]_vars

\* C21, amended: as stated, but insert_text(p, t) adds t at position p only
\* for p up to the number of rows; for a larger p it adds t as the last row.
THM_C21 ==
  /\ NewTextSelector
  /\ [][ (last'.op \in {"append_text", "prepend_text", "insert_text"})
         => /\ TextFrame
            /\ IF last'.arg = NullStr \/ (last'.op = "insert_text" /\ last'.col < 0)
               THEN store' = store
               ELSE AddedAt(FirstRows, FirstRows',
                            CASE last'.op = "append_text" -> Len(FirstRows) + 1
                              [] last'.op = "prepend_text" -> 1
                              [] last'.op = "insert_text" ->
                                   IF last'.col <= Len(FirstRows)
                                   THEN last'.col + 1
                                   ELSE Len(FirstRows) + 1,
                            last'.arg[1]) ]_vars

\* insert_text put a row between the two rows of the list
W_C21 ==
  /\ last.op = "insert_text" /\ last.col = 1
  /\ Len(FirstRows) = 3
  /\ FirstRows[2].text = last.arg[1]
  /\ NumColumns = 1

\* C22: set_model(i, m) on a column i of the list with a model m that is
\* not the one it has leaves the mode and the number of columns as they
\* were, and afterwards no row of the old model is selected in column i:
\* get_active_iter(i) gives no row of it.
THM_C22 ==
  [][ ( /\ last'.op = "set_model"
        /\ last'.col \in 0..(Len(columns) - 1)
        /\ last'.arg # hildon_touch_selector_get_model(columns, last'.col).ret )
      => LET i   == last'.col
             old == hildon_touch_selector_get_model(columns, i).ret
             act == hildon_touch_selector_get_active_iter(columns', i)
         IN  /\ Len(columns') = Len(columns)
             /\ columns'[i + 1].tree_view.mode = columns[i + 1].tree_view.mode
             /\ hildon_touch_selector_get_column_selection_mode(columns') = Mode
             /\ hildon_touch_selector_get_model(columns', i).ret = last'.arg
             /\ columns'[i + 1].tree_view.selected \cap RowIds(store, old) = {}
             /\ act.ok => act.iter \notin RowIds(store, old) ]_vars

\* The one column of a selector in multiple mode had two rows selected and
\* got another model, with a row; the mode is multiple still
W_C22 ==
  /\ last.op = "set_model" /\ last.col = 0 /\ Len(columns) = 1
  /\ last.mode0 = "MULTIPLE" /\ last.nsel0 = 2
  /\ Mode = "MULTIPLE"
  /\ columns[1].model = last.arg /\ Rows(store, last.arg) # << >>
  /\ columns[1].tree_view.selected = {}
  /\ emitted = << 0 >>

\* C23: when the selector is torn down every column is detached: the column
\* list is empty afterwards, every column record having left it, and been
\* released, on the way.
CEX_C23 ==
  (last.op = "destroy" /\ destroyed) => columns = << >>

\* C24: in single mode, with r the active row of a text selector, a
\* prepend_text or an insert_text at or before the position of r leaves r
\* the active row, with the text it had, one position later; no "changed" is
\* emitted and get_current_text gives the string it gave before.
THM_C24 ==
  [][ LET act == hildon_touch_selector_get_active_iter(columns, 0)
          at  == gtk_tree_model_get_path(store, FirstModel, act.iter) - 1
      IN  ( /\ last'.op \in {"prepend_text", "insert_text"}
            /\ last'.arg # NullStr
            /\ Mode = "SINGLE"
            /\ act.ok
            /\ last'.op = "insert_text" => last'.col \in 0..at )
          => /\ hildon_touch_selector_get_active_iter(columns', 0) = act
             /\ gtk_tree_model_get_path(store', FirstModel, act.iter) - 1 = at + 1
             /\ gtk_tree_model_get(store', FirstModel, act.iter)
                  = gtk_tree_model_get(store, FirstModel, act.iter)
             /\ emitted' = << >>
             /\ CurrentText' = CurrentText
             /\ CurrentText' = Str(gtk_tree_model_get(store, FirstModel, act.iter)) ]_vars

\* A row was inserted at the place of the active row, the second of two: it
\* is the third now, and the text of the selector is its text, not the new one
W_C24 ==
  /\ last.op = "insert_text" /\ last.col = 1 /\ last.arg # NullStr
  /\ Mode = "SINGLE" /\ Len(FirstRows) = 3
  /\ columns[1].tree_view.selected = { FirstRows[3].id }
  /\ FirstRows[2].text = last.arg[1]
  /\ CurrentText = Str(FirstRows[3].text)
  /\ CurrentText # last.arg

\* C25: get_selected_rows(i) for a column i of the list gives the rows
\* selected in column i, each once, in the order of the view, and leaves the
\* selection as it is; for a column in single mode it gives one row at most.
THM_C25 ==
  [][ (last'.op = "get_selected_rows" /\ last'.col \in 0..(Len(columns) - 1))
      => LET tv    == columns[last'.col + 1].tree_view
             rows  == Rows(store, tv.model)
             paths == last'.arg
         IN  /\ \A k \in 1..Len(paths) :
                  paths[k] \in 1..Len(rows) /\ rows[paths[k]].id \in tv.selected
             /\ \A iter \in tv.selected :
                  \E k \in 1..Len(paths) : rows[paths[k]].id = iter
             /\ \A j, k \in 1..Len(paths) : j < k => paths[j] < paths[k]
             /\ Len(paths) = Cardinality(tv.selected)
             /\ HildonMode(tv.mode) = "SINGLE" => Len(paths) <= 1
             /\ UNCHANGED <<columns, hbox, store, print_func>>
             /\ emitted' = << >>
             /\ fault' = "none" ]_vars

\* Multiple mode, the first and the last of three rows selected, the first
\* being the row added last: the paths come in the order of the view
W_C25 ==
  /\ last.op = "get_selected_rows" /\ last.col = 0
  /\ Mode = "MULTIPLE" /\ Len(FirstRows) = 3
  /\ last.arg = << 1, 3 >>
  /\ columns[1].tree_view.selected = { FirstRows[1].id, FirstRows[3].id }
  /\ FirstRows[1].id > FirstRows[3].id

\* C26: the centring callback is armed when the selector is first mapped
\* and never again, so that on one selector, mapped and unmapped in any
\* order, it runs once at most: a run is never followed by another run.
CEX_C26 ==
  [][ (last.op = "center_on_selected_items" /\ ~destroyed /\ fault = "none")
      => last'.op # "center_on_selected_items" ]_vars

\* The pannable areas of the columns of the list, in the order of the list
PanAreas(cols) == [k \in 1..Len(cols) |-> cols[k].panarea]

\* C27: whatever append_column and remove_column calls were made, the
\* pannable areas packed in priv->hbox are those of the columns of the list,
\* in the order of the list: no column without its widget in the layout, no
\* column widget in the layout without its column.
THM_C27 == hbox = PanAreas(columns)

\* remove_column was called on the first of two columns
W_C27 ==
  /\ last.op = "remove_column" /\ last.col = 0 /\ last.ret /\ last.n0 = 2
  /\ hbox = PanAreas(columns)
  /\ hbox # << >>

\* C28: every "changed" the selector emits has a payload from 0 to the
\* number of columns less one; -1, which _selection_changed_cb gives for a
\* column that is not in the list, is never emitted, whether a column is
\* appended or removed or the selector torn down.
THM_C28 ==
  \A k \in 1..Len(emitted) : emitted[k] # -1 /\ emitted[k] \in 0..(Len(columns) - 1)

\* A tap changed the selection of the second of two columns: the payload of
\* the one emission is 1
W_C28 ==
  /\ last.op = "tap" /\ last.col = 1 /\ Len(columns) = 2
  /\ emitted = << 1 >>
  /\ columns[2].id = last.signalled[1]

\* C29: append_column emits no "changed": the first row of the new column is
\* selected before the listener is connected and before the column is in
\* the list.
THM_C29 ==
  [][ (last'.op \in {"append_column", "append_text_column"})
      => /\ emitted' = << >>
         /\ last'.signalled = << >> ]_vars

\* A column over rows A and B was appended, A is selected in it, and nothing
\* was emitted
W_C29 ==
  /\ last.op = "append_column" /\ last.ret /\ last.n0 = 0
  /\ Len(columns) = 1
  /\ Len(Rows(store, columns[1].model)) = 2
  /\ columns[1].tree_view.selected = { Rows(store, columns[1].model)[1].id }
  /\ emitted = << >>

\* C30: set_active_iter and set_model on column i change column i alone:
\* every other column keeps its model, its selected rows and its mode, no
\* "changed" has another payload than i, and the number of columns, their
\* order and the print function stay.
THM_C30 ==
  [][ (last'.op \in {"set_active_iter", "set_model"})
      => /\ Len(columns') = Len(columns)
         /\ \A k \in 1..Len(columns) :
              /\ columns'[k].id = columns[k].id
              /\ columns'[k].panarea = columns[k].panarea
              /\ k # last'.col + 1 =>
                   /\ columns'[k].model = columns[k].model
                   /\ columns'[k].tree_view = columns[k].tree_view
         /\ \A n \in 1..Len(emitted') : emitted'[n] = last'.col
         /\ UNCHANGED <<hbox, print_func, store>> ]_vars

\* set_active_iter moved the active row of the first of two columns that
\* have the same model; the second column has its own active row still
W_C30 ==
  /\ last.op = "set_active_iter" /\ last.col = 0 /\ Len(columns) = 2
  /\ columns[1].model = columns[2].model
  /\ Mode = "SINGLE"
  /\ emitted = << 0 >>
  /\ columns[1].tree_view.selected = {last.arg}
  /\ columns[2].tree_view.selected # {}
  /\ columns[2].tree_view.selected # columns[1].tree_view.selected

\* C31: with no print function, in multiple mode and with no row selected
\* in the first column, get_current_text gives a string that begins with
\* "()": it is not NULL and there is no comma in it.
THM_C31 ==
  ( /\ print_func = NULL
    /\ Mode = "MULTIPLE"
    /\ columns[1].tree_view.selected = {} )
  => /\ CurrentText # NullStr
     /\ Len(CurrentText[1]) >= 2
     /\ SubSeq(CurrentText[1], 1, 2) = "()"
     /\ \A k \in 1..Len(CurrentText[1]) : SubSeq(CurrentText[1], k, k) # ","

\* A tap took the last selected row of the first column out of the
\* selection; the second column has an active row
W_C31 ==
  /\ last.op = "tap" /\ last.col = 0 /\ last.nsel0 = 1
  /\ print_func = NULL /\ Mode = "MULTIPLE" /\ Len(columns) = 2
  /\ columns[1].tree_view.selected = {}
  /\ Rows(store, columns[1].model) # << >>
  /\ columns[2].tree_view.selected # {}
  /\ SubSeq(CurrentText[1], 1, 2) = "()"

\* What a selector with no column answers
NoColumnAnswers(cols, pf, st) ==
  /\ hildon_touch_selector_get_column_selection_mode(cols) = "SINGLE"
  /\ ~hildon_touch_selector_has_multiple_selection(cols)
  /\ pf = NULL => hildon_touch_selector_get_current_text(pf, st, cols) = NullStr

\* C32: on a selector with no column get_column_selection_mode gives single,
\* has_multiple_selection FALSE, set_column_selection_mode does nothing, and
\* get_current_text with no print function gives NULL, not the empty string.
THM_C32 ==
  /\ columns = << >> /\ NoColumnAnswers(columns, print_func, store)
  /\ [][ /\ columns' = << >> => NoColumnAnswers(columns', print_func', store')
         /\ (last'.op = "set_column_selection_mode" /\ columns = << >>)
            => /\ UNCHANGED <<columns, hbox, vbox, print_func, store>>
               /\ emitted' = << >>
               /\ fault' = "none" ]_vars

\* Multiple mode was asked of a selector with no column and no print
\* function: it has no column still, and its text is NULL
W_C32 ==
  /\ last.op = "set_column_selection_mode" /\ last.arg = "MULTIPLE" /\ last.n0 = 0
  /\ columns = << >> /\ print_func = NULL
  /\ Mode = "SINGLE"
  /\ CurrentText = NullStr /\ CurrentText # Str("")

====
